---- MODULE Spec2Model ----
(***************************************************************************)
(* Echo-Check backend: the score fusion (calculate_truth_score), the       *)
(* anomaly rules (detect_anomalies) and the verdict bands of the PDF       *)
(* report (generate_pdf_report), as a state machine over one call; the     *)
(* same functions called concurrently; the analyzers of ai_models.py; and  *)
(* the server of main.py with its table of analysis records, its files     *)
(* and one action per handler.                                             *)
(*                                                                         *)
(* Scores are Python floats.  They are modelled as IEEE-754 binary64       *)
(* values with round-to-nearest-even arithmetic, so that the rounding of   *)
(* score * 0.4 + score * 0.6 is the rounding the interpreter performs.     *)
(* Exponent overflow and subnormals are outside the magnitudes used here.  *)
(***************************************************************************)
EXTENDS Integers, Sequences, FiniteSets, TLC

(***************************************************************************)
(* Natural numbers of arbitrary size: little-endian sequences of limbs in  *)
(* base 2^15, without leading zero limbs; <<>> is zero.                    *)
(***************************************************************************)
LimbBits == 15
Base == 32768
MantBits == 53

RECURSIVE Pow2(_)
Pow2(n) == IF n = 0 THEN 1 ELSE 2 * Pow2(n - 1)

Zeros(n) == [i \in 1..n |-> 0]

Limb(a, i) == IF i <= Len(a) THEN a[i] ELSE 0

RECURSIVE BNorm(_)
BNorm(a) ==
    IF a = <<>> THEN a
    ELSE IF a[Len(a)] = 0 THEN BNorm(SubSeq(a, 1, Len(a) - 1))
    ELSE a

RECURSIVE BFromInt(_)
BFromInt(k) == IF k = 0 THEN <<>> ELSE <<k % Base>> \o BFromInt(k \div Base)

RECURSIVE BAddC(_, _, _, _)
BAddC(a, b, i, c) ==
    IF i > Len(a) /\ i > Len(b)
    THEN (IF c = 0 THEN <<>> ELSE <<c>>)
    ELSE LET s == Limb(a, i) + Limb(b, i) + c
         IN  <<s % Base>> \o BAddC(a, b, i + 1, s \div Base)

BAdd(a, b) == BAddC(a, b, 1, 0)

RECURSIVE BSubC(_, _, _, _)
BSubC(a, b, i, br) ==
    IF i > Len(a) THEN <<>>
    ELSE LET d == Limb(a, i) - Limb(b, i) - br
         IN  <<d % Base>> \o BSubC(a, b, i + 1, IF d < 0 THEN 1 ELSE 0)

\* a - b for a >= b
BSub(a, b) == BNorm(BSubC(a, b, 1, 0))

RECURSIVE BCmpAt(_, _, _)
BCmpAt(a, b, i) ==
    IF i = 0 THEN 0
    ELSE IF a[i] > b[i] THEN 1
    ELSE IF a[i] < b[i] THEN -1
    ELSE BCmpAt(a, b, i - 1)

\* -1, 0, 1 as a < b, a = b, a > b
BCmp(a, b) ==
    IF Len(a) > Len(b) THEN 1
    ELSE IF Len(a) < Len(b) THEN -1
    ELSE BCmpAt(a, b, Len(a))

RECURSIVE BMulSmallC(_, _, _, _)
BMulSmallC(a, k, i, c) ==
    IF i > Len(a)
    THEN (IF c = 0 THEN <<>> ELSE <<c>>)
    ELSE LET p == a[i] * k + c
         IN  <<p % Base>> \o BMulSmallC(a, k, i + 1, p \div Base)

\* a * k for 0 <= k < Base
BMulSmall(a, k) == BNorm(BMulSmallC(a, k, 1, 0))

RECURSIVE BMulAt(_, _, _)
BMulAt(a, b, j) ==
    IF j > Len(b) THEN <<>>
    ELSE BAdd(Zeros(j - 1) \o BMulSmallC(a, b[j], 1, 0), BMulAt(a, b, j + 1))

BMul(a, b) == BNorm(BMulAt(a, b, 1))

RECURSIVE BDivSmallR(_, _, _, _)
BDivSmallR(a, d, i, r) ==
    IF i = 0 THEN [q |-> <<>>, r |-> r]
    ELSE LET cur  == r * Base + a[i]
             rest == BDivSmallR(a, d, i - 1, cur % d)
         IN  [q |-> Append(rest.q, cur \div d), r |-> rest.r]

\* quotient and remainder of a by d, 0 < d <= Base
BDivSmall(a, d) ==
    LET qr == BDivSmallR(a, d, Len(a), 0)
    IN  [q |-> BNorm(qr.q), r |-> qr.r]

\* a * 2^n
BShl(a, n) ==
    IF a = <<>> THEN <<>>
    ELSE Zeros(n \div LimbBits) \o BMulSmall(a, Pow2(n % LimbBits))

\* floor(a / 2^n)
BShr(a, n) ==
    LET k == n \div LimbBits
    IN  IF k >= Len(a) THEN <<>>
        ELSE BDivSmall(SubSeq(a, k + 1, Len(a)), Pow2(n % LimbBits)).q

RECURSIVE BitLenSmall(_)
BitLenSmall(x) == IF x = 0 THEN 0 ELSE 1 + BitLenSmall(x \div 2)

BBitLen(a) ==
    IF a = <<>> THEN 0
    ELSE LimbBits * (Len(a) - 1) + BitLenSmall(a[Len(a)])

BOdd(a) == a # <<>> /\ a[1] % 2 = 1

(***************************************************************************)
(* binary64 values: [neg, m, e] is (-1)^neg * m * 2^e with m a 53-bit      *)
(* natural (2^52 <= m < 2^53), and zero is [neg |-> FALSE, m |-> <<>>,     *)
(* e |-> 0].                                                               *)
(***************************************************************************)
FZero == [neg |-> FALSE, m |-> <<>>, e |-> 0]

\* the binary64 value nearest to (-1)^neg * n * 2^e, ties to even
RoundToDouble(neg, n, e) ==
    LET len == BBitLen(n)
    IN  IF len = 0 THEN FZero
        ELSE IF len <= MantBits
        THEN [neg |-> neg, m |-> BShl(n, MantBits - len), e |-> e - (MantBits - len)]
        ELSE LET sh   == len - MantBits
                 q    == BShr(n, sh)
                 r    == BSub(n, BShl(q, sh))
                 half == BShl(<<1>>, sh - 1)
                 c    == BCmp(r, half)
                 up   == c = 1 \/ (c = 0 /\ BOdd(q))
                 q1   == IF up THEN BAdd(q, <<1>>) ELSE q
             IN  IF BBitLen(q1) > MantBits
                 THEN [neg |-> neg, m |-> BShr(q1, 1), e |-> e + sh + 1]
                 ELSE [neg |-> neg, m |-> q1, e |-> e + sh]

\* the float nearest to num / den (a literal such as 0.4, or an int / int
\* quotient), for 0 <= num < 2^31 and 0 < den <= Base
FromRatio(num, den) ==
    LET qr == BDivSmall(BShl(BFromInt(num), 75), den)
        n2 == BAdd(BShl(qr.q, 1), IF qr.r = 0 THEN <<>> ELSE <<1>>)
    IN  RoundToDouble(FALSE, n2, -76)

FromInt(k) == FromRatio(k, 1)

FNeg(x) == IF x.m = <<>> THEN x ELSE [x EXCEPT !.neg = ~x.neg]

\* x * y
FMul(x, y) ==
    IF x.m = <<>> \/ y.m = <<>> THEN FZero
    ELSE RoundToDouble(x.neg # y.neg, BMul(x.m, y.m), x.e + y.e)

\* x + y
FAdd(x, y) ==
    IF x.m = <<>> THEN y
    ELSE IF y.m = <<>> THEN x
    ELSE LET e0 == IF x.e < y.e THEN x.e ELSE y.e
             xm == BShl(x.m, x.e - e0)
             ym == BShl(y.m, y.e - e0)
             c  == BCmp(xm, ym)
         IN  IF x.neg = y.neg THEN RoundToDouble(x.neg, BAdd(xm, ym), e0)
             ELSE IF c = 0 THEN FZero
             ELSE IF c = 1 THEN RoundToDouble(x.neg, BSub(xm, ym), e0)
             ELSE RoundToDouble(y.neg, BSub(ym, xm), e0)

\* |x| < |y| for non-zero x, y
MagLess(x, y) == x.e < y.e \/ (x.e = y.e /\ BCmp(x.m, y.m) = -1)

\* x < y
FLess(x, y) ==
    IF x.m = <<>> THEN y.m # <<>> /\ ~y.neg
    ELSE IF y.m = <<>> THEN x.neg
    ELSE IF x.neg # y.neg THEN x.neg
    ELSE IF x.neg THEN MagLess(y, x)
    ELSE MagLess(x, y)

\* x >= y
FGeq(x, y) == ~FLess(x, y)

\* x <= y
FLeq(x, y) == ~FLess(y, x)

\* min(x, y) and max(x, y): the first argument unless the second is smaller
\* (min) or larger (max)
FMin(x, y) == IF FLess(y, x) THEN y ELSE x

FMax(x, y) == IF FLess(x, y) THEN y ELSE x

(***************************************************************************)
(* Python values.  An Optional (None, or a key a dict does not hold) is    *)
(* the empty sequence, a present value v is <<v>>.  A result dict holds    *)
(* the keys "confidence" and "features", each present or not; a features   *)
(* dict holds "spectral_consistency" and "temporal_coherence" likewise.    *)
(***************************************************************************)
None == <<>>

Some(v) == <<v>>

EmptyFeatures == [spectral_consistency |-> None, temporal_coherence |-> None]

EmptyDict == [confidence |-> None, features |-> None]

\* len(d) == 0
IsEmptyDict(d) == \A k \in DOMAIN d : d[k] = None

\* bool(x) of an Optional[Dict]: None and {} are falsy
Truthy(x) == x # None /\ ~IsEmptyDict(x[1])

\* k in d
HasKey(d, k) == d[k] # None

\* d.get(k, default)
Get(d, k, default) == IF HasKey(d, k) THEN d[k][1] ELSE default

\* result["confidence"] can be evaluated: result is a dict and has the key
\* (the subscript raises TypeError on None and KeyError without the key)
HasConfidence(res) == res # None /\ HasKey(res[1], "confidence")

\* result["confidence"], where it can be evaluated
ConfidenceOf(res) == Some(res[1].confidence[1])

\* the thresholds and defaults of detect_anomalies
DEFAULT_CONFIDENCE == 50
HIGH_BELOW == 40
MEDIUM_BELOW == 60
DEFAULT_FEATURE == 100
SPECTRAL_BELOW == 50
TEMPORAL_BELOW == 55

D_DEFAULT_CONFIDENCE == FromInt(DEFAULT_CONFIDENCE)
D_HIGH_BELOW == FromInt(HIGH_BELOW)
D_MEDIUM_BELOW == FromInt(MEDIUM_BELOW)
D_DEFAULT_FEATURE == FromInt(DEFAULT_FEATURE)
D_SPECTRAL_BELOW == FromInt(SPECTRAL_BELOW)
D_TEMPORAL_BELOW == FromInt(TEMPORAL_BELOW)

Anomaly(type, severity, description, confidence) ==
    [type |-> type, severity |-> severity, description |-> description,
     confidence |-> confidence]

\* a frame of detect_anomalies: the list built so far, and the exception
\* that ended the call, if any
Frame(anomalies, exc) == [anomalies |-> anomalies, exc |-> exc]

\* anomalies.append(a)
AppendAnomaly(f, a) == [f EXCEPT !.anomalies = Append(@, a)]

\* a variant of PrimaryRule that tests the second band with "if" instead of
\* "elif", so that a confidence below 40 is reported twice
PrimaryRule_two_ifs(f, type, confidence, high_text, medium_text) ==
    LET f1 == IF FLess(confidence, D_HIGH_BELOW)
              THEN AppendAnomaly(f, Anomaly(type, "high", high_text, confidence))
              ELSE f
    IN  IF FLess(confidence, D_MEDIUM_BELOW)
        THEN AppendAnomaly(f1, Anomaly(type, "medium", medium_text, confidence))
        ELSE f1

\* a variant of PrimaryRule that reports only the band below 40
PrimaryRule_high_only(f, type, confidence, high_text, medium_text) ==
    IF FLess(confidence, D_HIGH_BELOW)
    THEN AppendAnomaly(f, Anomaly(type, "high", high_text, confidence))
    ELSE f

\* a variant of PrimaryRule with inclusive bounds (<= 40, <= 60)
PrimaryRule_inclusive(f, type, confidence, high_text, medium_text) ==
    IF FLeq(confidence, D_HIGH_BELOW)
    THEN AppendAnomaly(f, Anomaly(type, "high", high_text, confidence))
    ELSE IF FLeq(confidence, D_MEDIUM_BELOW)
    THEN AppendAnomaly(f, Anomaly(type, "medium", medium_text, confidence))
    ELSE f

\* if confidence < 40: ... elif confidence < 60: ...
PrimaryRule(f, type, confidence, high_text, medium_text) ==
    IF FLess(confidence, D_HIGH_BELOW)
    THEN AppendAnomaly(f, Anomaly(type, "high", high_text, confidence))
    ELSE IF FLess(confidence, D_MEDIUM_BELOW)
    THEN AppendAnomaly(f, Anomaly(type, "medium", medium_text, confidence))
    ELSE f

\* a variant of FeatureRule with an inclusive threshold (<= below)
FeatureRule_inclusive(f, features, key, below, type, text) ==
    IF FLeq(Get(features, key, D_DEFAULT_FEATURE), below)
    THEN IF HasKey(features, key)
         THEN AppendAnomaly(f, Anomaly(type, "medium", text, features[key][1]))
         ELSE [f EXCEPT !.exc = "KeyError"]
    ELSE f

\* a variant of FeatureRule whose features.get defaults to 0 instead of 100
FeatureRule_default_zero(f, features, key, below, type, text) ==
    IF FLess(Get(features, key, FZero), below)
    THEN IF HasKey(features, key)
         THEN AppendAnomaly(f, Anomaly(type, "medium", text, features[key][1]))
         ELSE [f EXCEPT !.exc = "KeyError"]
    ELSE f

\* if features.get(key, 100) < below: anomalies.append({..., features[key]})
FeatureRule(f, features, key, below, type, text) ==
    IF FLess(Get(features, key, D_DEFAULT_FEATURE), below)
    THEN IF HasKey(features, key)
         THEN AppendAnomaly(f, Anomaly(type, "medium", text, features[key][1]))
         ELSE [f EXCEPT !.exc = "KeyError"]
    ELSE f

\* a variant of AudioBlock that takes a missing record for an empty one
\* (audio_result = audio_result or {}) instead of skipping the block
AudioBlock_unguarded(f, audio_result) ==
    LET d  == IF audio_result = None THEN EmptyDict ELSE audio_result[1]
        f1 == PrimaryRule(f, "audio", Get(d, "confidence", D_DEFAULT_CONFIDENCE),
                          "Significant audio manipulation detected",
                          "Possible audio inconsistencies detected")
    IN  FeatureRule(f1, Get(d, "features", EmptyFeatures), "spectral_consistency",
                    D_SPECTRAL_BELOW, "audio_spectral",
                    "Unusual frequency patterns detected")

\* the block "if audio_result:"
AudioBlock(f, audio_result) ==
    IF ~Truthy(audio_result) THEN f
    ELSE LET d  == audio_result[1]
             f1 == PrimaryRule(f, "audio", Get(d, "confidence", D_DEFAULT_CONFIDENCE),
                               "Significant audio manipulation detected",
                               "Possible audio inconsistencies detected")
         IN  FeatureRule(f1, Get(d, "features", EmptyFeatures), "spectral_consistency",
                         D_SPECTRAL_BELOW, "audio_spectral",
                         "Unusual frequency patterns detected")

\* a variant of VideoBlock that is skipped once the audio block has reported
\* something (an "elif" in the place of the second "if")
VideoBlock_elif(f, video_result) ==
    IF f.exc # "none" \/ ~Truthy(video_result) \/ f.anomalies # <<>> THEN f
    ELSE LET d  == video_result[1]
             f1 == PrimaryRule(f, "video", Get(d, "confidence", D_DEFAULT_CONFIDENCE),
                               "Significant video manipulation detected",
                               "Possible video inconsistencies detected")
         IN  FeatureRule(f1, Get(d, "features", EmptyFeatures), "temporal_coherence",
                         D_TEMPORAL_BELOW, "video_temporal",
                         "Frame-to-frame inconsistencies detected")

\* the block "if video_result:"
VideoBlock(f, video_result) ==
    IF f.exc # "none" \/ ~Truthy(video_result) THEN f
    ELSE LET d  == video_result[1]
             f1 == PrimaryRule(f, "video", Get(d, "confidence", D_DEFAULT_CONFIDENCE),
                               "Significant video manipulation detected",
                               "Possible video inconsistencies detected")
         IN  FeatureRule(f1, Get(d, "features", EmptyFeatures), "temporal_coherence",
                         D_TEMPORAL_BELOW, "video_temporal",
                         "Frame-to-frame inconsistencies detected")

\* a variant of detect_anomalies that runs the video block first
detect_anomalies_video_first(audio_result, video_result) ==
    LET f == AudioBlock(VideoBlock(Frame(<<>>, "none"), video_result), audio_result)
    IN  IF f.exc = "none" THEN f ELSE Frame(<<>>, f.exc)

\* the call: the list returned, or the exception raised (and then no list)
detect_anomalies(audio_result, video_result) ==
    LET f == VideoBlock(AudioBlock(Frame(<<>>, "none"), audio_result), video_result)
    IN  IF f.exc = "none" THEN f ELSE Frame(<<>>, f.exc)

\* the weights and the default of calculate_truth_score
W_AUDIO == FromRatio(4, 10)
\* a variant of W_VIDEO with which the weights no longer sum to 1
W_VIDEO_heavy == FromRatio(7, 10)

W_VIDEO == FromRatio(6, 10)
NEUTRAL_SCORE == FromRatio(500, 10)

\* a variant of calculate_truth_score with the two weights exchanged
calculate_truth_score_swapped(audio_score, video_score) ==
    IF audio_score # None /\ video_score # None
    THEN FAdd(FMul(audio_score[1], W_VIDEO), FMul(video_score[1], W_AUDIO))
    ELSE IF audio_score # None THEN audio_score[1]
    ELSE IF video_score # None THEN video_score[1]
    ELSE NEUTRAL_SCORE

\* a variant of calculate_truth_score that tests the scores for truth
\* (if audio_score) instead of comparing them with None
calculate_truth_score_falsy(audio_score, video_score) ==
    LET has(x) == x # None /\ x[1] # FZero
    IN  IF has(audio_score) /\ has(video_score)
        THEN FAdd(FMul(audio_score[1], W_AUDIO), FMul(video_score[1], W_VIDEO))
        ELSE IF has(audio_score) THEN audio_score[1]
        ELSE IF has(video_score) THEN video_score[1]
        ELSE NEUTRAL_SCORE

\* a variant of calculate_truth_score whose default is 0.0
calculate_truth_score_default_zero(audio_score, video_score) ==
    IF audio_score # None /\ video_score # None
    THEN FAdd(FMul(audio_score[1], W_AUDIO), FMul(video_score[1], W_VIDEO))
    ELSE IF audio_score # None THEN audio_score[1]
    ELSE IF video_score # None THEN video_score[1]
    ELSE FZero

calculate_truth_score(audio_score, video_score) ==
    IF audio_score # None /\ video_score # None
    THEN FAdd(FMul(audio_score[1], W_AUDIO), FMul(video_score[1], W_VIDEO))
    ELSE IF audio_score # None THEN audio_score[1]
    ELSE IF video_score # None THEN video_score[1]
    ELSE NEUTRAL_SCORE

\* the verdict bands of generate_pdf_report
REPORT_DEFAULT == 50
AUTHENTIC_FROM == 70
UNCERTAIN_FROM == 50

D_REPORT_DEFAULT == FromInt(REPORT_DEFAULT)
D_AUTHENTIC_FROM == FromInt(AUTHENTIC_FROM)
D_UNCERTAIN_FROM == FromInt(UNCERTAIN_FROM)

\* x or default, for an Optional[float] x: None and 0.0 are falsy
OrDefault(x, default) == IF x = None \/ x[1] = FZero THEN default ELSE x[1]

\* "Determine verdict" in generate_pdf_report, from analysis.truth_score
report_verdict(analysis_truth_score) ==
    LET truth_score == OrDefault(analysis_truth_score, D_REPORT_DEFAULT)
    IN  IF FGeq(truth_score, D_AUTHENTIC_FROM) THEN "LIKELY AUTHENTIC"
        ELSE IF FGeq(truth_score, D_UNCERTAIN_FROM) THEN "UNCERTAIN"
        ELSE "LIKELY MANIPULATED"

(***************************************************************************)
(* The inputs.  Scores, confidences and feature values are given in tenths *)
(* (399 is the float 39.9) or thousandths and converted as the interpreter *)
(* converts the literal or the quotient.                                   *)
(***************************************************************************)
MaxSmallTenth == 20
NearSteps == 1

MaxTenth == 1500

Tenths == [t \in 0..MaxTenth |-> FromRatio(t, 10)]

Thousandths == [t \in {1, 49999, 69999} |-> FromRatio(t, 1000)]

ConfidenceTenths ==
    {0, 350, 400, 450, 600, 650, 800, 1000}
        \cup {400 - k : k \in 1..NearSteps} \cup {600 - k : k \in 1..NearSteps}

SpectralTenths == {300, 500, 1000} \cup {500 - k : k \in 1..NearSteps}

TemporalTenths == {400, 550, 1000} \cup {550 - k : k \in 1..NearSteps}

Optional(S) == {None} \cup {Some(v) : v \in S}

AudioFeatureDicts ==
    {[EmptyFeatures EXCEPT !.spectral_consistency = v] :
        v \in Optional({Tenths[t] : t \in SpectralTenths})}

VideoFeatureDicts ==
    {[EmptyFeatures EXCEPT !.temporal_coherence = v] :
        v \in Optional({Tenths[t] : t \in TemporalTenths})}

ResultDicts(FeatureDicts) ==
    [confidence : Optional({Tenths[t] : t \in ConfidenceTenths}),
     features : Optional(FeatureDicts)]

AudioResults == Optional(ResultDicts(AudioFeatureDicts))

VideoResults == Optional(ResultDicts(VideoFeatureDicts))

ScoreTenths ==
    (0..MaxSmallTenth) \cup {67, 350, 399, 400, 499, 500, 599, 600, 699, 700, 800, 1000, 1500}

Scores == {Tenths[t] : t \in ScoreTenths} \cup {FNeg(Tenths[50])}

TruthScores == Scores \cup {Thousandths[t] : t \in DOMAIN Thousandths}

NoFrame == Frame(<<>>, "pending")

VARIABLES
    op,             \* the function called: "detect", "fuse", "verdict" or "pair"
    pc,             \* "call" before the function ran, "return" after
    audio_result,   \* detect_anomalies: Optional[Dict]
    video_result,   \* detect_anomalies: Optional[Dict]
    detected,       \* detect_anomalies: the frame it ended with
    audio_score,    \* calculate_truth_score: Optional[float]
    video_score,    \* calculate_truth_score: Optional[float]
    truth_score,    \* calculate_truth_score: the float returned
    stored_score,   \* generate_pdf_report: analysis.truth_score
    verdict,        \* generate_pdf_report: the verdict string
    calls,          \* concurrent calls of the two functions: slot -> call
    db,             \* the analysis_history table: id -> row
    disk,           \* the files under uploads/ and spectrograms/
    upload,         \* the upload_file request being handled, if any
    reply,          \* the response to the last request handled
    clock,          \* datetime.utcnow(), counted in uploads saved so far
    deleted         \* the rows deleted so far

corevars == <<op, pc, audio_result, video_result, detected, audio_score, video_score,
              truth_score, stored_score, verdict>>

appvars == <<db, disk, upload, reply, clock, deleted>>

vars == <<op, pc, audio_result, video_result, detected, audio_score, video_score,
          truth_score, stored_score, verdict, calls, db, disk, upload, reply,
          clock, deleted>>

\* no request is being handled
NoUpload == [pc |-> "idle", user |-> 0, id |-> 0, ext |-> "", file_path |-> <<>>]

\* a response: the handler and its caller, the id asked for, the status code,
\* the body, and (not part of the response) the rows the handler read
Reply(handler, user, id, code, body, read) ==
    [handler |-> handler, user |-> user, id |-> id, code |-> code, body |-> body,
     read |-> read]

NoReply == Reply("none", 0, 0, 0, <<>>, <<>>)

\* an empty table, empty directories and no request
AppEmpty ==
    /\ db = <<>> /\ disk = {} /\ deleted = {} /\ clock = 0
    /\ upload = NoUpload /\ reply = NoReply

\* a single call, no server
CoreOnly == calls = <<>> /\ AppEmpty

InitDetect ==
    /\ op = "detect"
    /\ audio_result \in AudioResults
    /\ video_result \in VideoResults
    /\ audio_score = None /\ video_score = None /\ stored_score = None

InitFuse ==
    /\ op = "fuse"
    /\ audio_score \in Optional(Scores)
    /\ video_score \in Optional(Scores)
    /\ audio_result = None /\ video_result = None /\ stored_score = None

InitVerdict ==
    /\ op = "verdict"
    /\ stored_score \in Optional(TruthScores)
    /\ audio_result = None /\ video_result = None
    /\ audio_score = None /\ video_score = None

Init ==
    /\ pc = "call"
    /\ detected = NoFrame
    /\ truth_score = None
    /\ verdict = ""
    /\ CoreOnly
    /\ (InitDetect \/ InitFuse \/ InitVerdict)

DetectAnomalies ==
    /\ pc = "call" /\ op = "detect"
    /\ detected' = detect_anomalies(audio_result, video_result)
    /\ pc' = "return"
    /\ UNCHANGED <<op, audio_result, video_result, audio_score, video_score,
                   truth_score, stored_score, verdict, calls, appvars>>

CalculateTruthScore ==
    /\ pc = "call" /\ op = "fuse"
    /\ truth_score' = Some(calculate_truth_score(audio_score, video_score))
    /\ pc' = "return"
    /\ UNCHANGED <<op, audio_result, video_result, detected, audio_score, video_score,
                   stored_score, verdict, calls, appvars>>

ReportVerdict ==
    /\ pc = "call" /\ op = "verdict"
    /\ verdict' = report_verdict(stored_score)
    /\ pc' = "return"
    /\ UNCHANGED <<op, audio_result, video_result, detected, audio_score, video_score,
                   truth_score, stored_score, calls, appvars>>

Next == DetectAnomalies \/ CalculateTruthScore \/ ReportVerdict

Spec == Init /\ [][Next]_vars

(***************************************************************************)
(* The functions called one after the other on the same modalities: the   *)
(* results go to detect_anomalies, their confidences to                    *)
(* calculate_truth_score, and the fused score to the report.               *)
(***************************************************************************)
PairConfidenceTenths ==
    {0, 1, 250, 400, 450, 500, 600, 700, 800, 1000}
        \cup {b - k : b \in {400, 500, 600, 700}, k \in 1..NearSteps}
        \cup {b + k : b \in {500, 700}, k \in 1..NearSteps}

PairResults(key, low) ==
    Optional([confidence : {Some(Tenths[t]) : t \in PairConfidenceTenths},
              features : {Some(EmptyFeatures),
                          Some([EmptyFeatures EXCEPT ![key] = Some(Tenths[low])])}])

\* the score of a modality: the confidence of its result when the modality is
\* present, None when it is absent
PresentScore(res) == IF res = None THEN None ELSE res[1].confidence

\* the two functions on the same present modalities: the results given to
\* detect_anomalies, their confidences given to calculate_truth_score
InitPair ==
    /\ op = "pair"
    /\ pc = "call"
    /\ audio_result \in PairResults("spectral_consistency", 300)
    /\ video_result \in PairResults("temporal_coherence", 400)
    /\ audio_score = PresentScore(audio_result)
    /\ video_score = PresentScore(video_result)
    /\ stored_score = None
    /\ detected = NoFrame
    /\ truth_score = None
    /\ verdict = ""
    /\ CoreOnly

\* the call detect_anomalies(audio_result, video_result)
PairDetect ==
    /\ op = "pair" /\ pc = "call"
    /\ detected' = detect_anomalies(audio_result, video_result)
    /\ pc' = "detected"
    /\ UNCHANGED <<op, audio_result, video_result, audio_score, video_score,
                   truth_score, stored_score, verdict, calls, appvars>>

\* the call calculate_truth_score(audio_score, video_score)
PairFuse ==
    /\ op = "pair" /\ pc = "detected"
    /\ truth_score' = Some(calculate_truth_score(audio_score, video_score))
    /\ pc' = "fused"
    /\ UNCHANGED <<op, audio_result, video_result, detected, audio_score, video_score,
                   stored_score, verdict, calls, appvars>>

\* the call generate_pdf_report(analysis, user) on an analysis whose
\* truth_score is the fused score
PairReport ==
    /\ op = "pair" /\ pc = "fused"
    /\ stored_score' = truth_score
    /\ verdict' = report_verdict(truth_score)
    /\ pc' = "return"
    /\ UNCHANGED <<op, audio_result, video_result, detected, audio_score, video_score,
                   truth_score, calls, appvars>>

NextPair == PairDetect \/ PairFuse \/ PairReport

SpecPair == InitPair /\ [][NextPair]_vars

(***************************************************************************)
(* Concurrent calls.  Each slot holds one call of detect_anomalies or of   *)
(* calculate_truth_score with its arguments and its local variables; the   *)
(* calls advance one block at a time, in any interleaving.                 *)
(***************************************************************************)
NumCalls == 2

CallResults(key) ==
    {None,
     Some([confidence |-> Some(Tenths[350]),
           features |-> Some([EmptyFeatures EXCEPT ![key] = Some(Tenths[300])])]),
     Some([confidence |-> Some(Tenths[800]), features |-> Some(EmptyFeatures)])}

CallScores == {None, Some(Tenths[9]), Some(Tenths[900])}

DetectCalls ==
    {[fn |-> "detect", pc |-> "call", audio_result |-> a, video_result |-> v,
      audio_score |-> None, video_score |-> None,
      anomalies |-> NoFrame, ret |-> None] :
        a \in CallResults("spectral_consistency"),
        v \in CallResults("temporal_coherence")}

FuseCalls ==
    {[fn |-> "fuse", pc |-> "call", audio_result |-> None, video_result |-> None,
      audio_score |-> a, video_score |-> v,
      anomalies |-> NoFrame, ret |-> None] : a \in CallScores, v \in CallScores}

InitCalls ==
    /\ op = "calls"
    /\ pc = "call"
    /\ audio_result = None /\ video_result = None
    /\ audio_score = None /\ video_score = None /\ stored_score = None
    /\ detected = NoFrame
    /\ truth_score = None
    /\ verdict = ""
    /\ AppEmpty
    /\ calls \in [1..NumCalls -> DetectCalls \cup FuseCalls]

\* a variant of NewList in which the list outlives the call (a module-level
\* list, or a mutable default argument): the call starts from the list
\* another call has been building
NewList_shared(cs, s) ==
    LET others == {t \in DOMAIN cs : t # s /\ cs[t].fn = "detect" /\ cs[t].pc # "call"}
    IN  IF others = {} THEN Frame(<<>>, "none")
        ELSE cs[CHOOSE t \in others : TRUE].anomalies

\* anomalies = []: a new list, local to the call in slot s
NewList(cs, s) == Frame(<<>>, "none")

DetectStart(s) ==
    /\ calls[s].fn = "detect" /\ calls[s].pc = "call"
    /\ calls' = [calls EXCEPT ![s].anomalies = NewList(calls, s), ![s].pc = "audio"]
    /\ UNCHANGED <<corevars, appvars>>

DetectAudio(s) ==
    /\ calls[s].fn = "detect" /\ calls[s].pc = "audio"
    /\ calls' = [calls EXCEPT
                    ![s].anomalies = AudioBlock(@, calls[s].audio_result),
                    ![s].pc = "video"]
    /\ UNCHANGED <<corevars, appvars>>

DetectVideo(s) ==
    /\ calls[s].fn = "detect" /\ calls[s].pc = "video"
    /\ calls' = [calls EXCEPT
                    ![s].anomalies = VideoBlock(@, calls[s].video_result),
                    ![s].pc = "return"]
    /\ UNCHANGED <<corevars, appvars>>

\* return anomalies, unless a block raised
DetectReturn(s) ==
    /\ calls[s].fn = "detect" /\ calls[s].pc = "return"
    /\ calls' = [calls EXCEPT
                    ![s].ret = Some(IF calls[s].anomalies.exc = "none"
                                    THEN calls[s].anomalies
                                    ELSE Frame(<<>>, calls[s].anomalies.exc)),
                    ![s].pc = "done"]
    /\ UNCHANGED <<corevars, appvars>>

FuseCall(s) ==
    /\ calls[s].fn = "fuse" /\ calls[s].pc = "call"
    /\ calls' = [calls EXCEPT
                    ![s].ret = Some(calculate_truth_score(calls[s].audio_score,
                                                          calls[s].video_score)),
                    ![s].pc = "done"]
    /\ UNCHANGED <<corevars, appvars>>

NextCalls ==
    \E s \in 1..NumCalls :
        \/ DetectStart(s)
        \/ DetectAudio(s)
        \/ DetectVideo(s)
        \/ DetectReturn(s)
        \/ FuseCall(s)

SpecCalls == InitCalls /\ [][NextCalls]_vars

(***************************************************************************)
(* The analyzers of ai_models.py.  A result carries the confidence and the *)
(* two features detect_anomalies reads; the other keys are never read.     *)
(***************************************************************************)
PERCENT_MAX == 100
SPECTRAL_OFFSET == 5
TEMPORAL_OFFSET == 12
MOCK_AUDIO_FLOOR == 40
MOCK_VIDEO_FLOOR == 45
NO_FRAMES_CONFIDENCE == 50

\* "spectral_consistency": min(confidence + 5, 100)
AudioFeatures(confidence) ==
    [EmptyFeatures EXCEPT !.spectral_consistency =
        Some(FMin(FAdd(confidence, FromInt(SPECTRAL_OFFSET)), FromInt(PERCENT_MAX)))]

\* a variant of VideoFeatures that takes the offset off the confidence
VideoFeatures_minus(confidence) ==
    [EmptyFeatures EXCEPT !.temporal_coherence =
        Some(FMin(FAdd(confidence, FNeg(FromInt(TEMPORAL_OFFSET))),
                  FromInt(PERCENT_MAX)))]

\* "temporal_coherence": min(avg_confidence + 12, 100)
VideoFeatures(confidence) ==
    [EmptyFeatures EXCEPT !.temporal_coherence =
        Some(FMin(FAdd(confidence, FromInt(TEMPORAL_OFFSET)), FromInt(PERCENT_MAX)))]

ResultDict(confidence, features) ==
    Some([confidence |-> Some(confidence), features |-> Some(features)])

\* AudioAnalyzer.analyze with the model: percent is the probability * 100
AudioAnalyzer_analyze(percent) == ResultDict(percent, AudioFeatures(percent))

\* AudioAnalyzer._mock_analysis: heuristic is
\* (mean_amplitude * 1000 + std_amplitude * 100) % 100
AudioAnalyzer_mock_analysis(heuristic) ==
    LET confidence == FMax(FromInt(MOCK_AUDIO_FLOOR),
                           FMin(FromInt(PERCENT_MAX), heuristic))
    IN  ResultDict(confidence, AudioFeatures(confidence))

\* VideoAnalyzer.analyze with the model: percent is the mean over the frames
VideoAnalyzer_analyze(percent) == ResultDict(percent, VideoFeatures(percent))

\* VideoAnalyzer._mock_analysis: no heuristic when there is no frame, else
\* heuristic is (avg_variance * 2) % 100
VideoAnalyzer_mock_analysis(heuristic) ==
    IF heuristic = None
    THEN ResultDict(FromInt(NO_FRAMES_CONFIDENCE),
                    [EmptyFeatures EXCEPT !.temporal_coherence =
                        Some(FromInt(NO_FRAMES_CONFIDENCE))])
    ELSE LET confidence == FMax(FromInt(MOCK_VIDEO_FLOOR),
                                FMin(FromInt(PERCENT_MAX), heuristic[1]))
         IN  ResultDict(confidence, VideoFeatures(confidence))

\* the results the server's uploads get: a percentage from the model, or
\* the mock's answer (for audio on a heuristic value, for video on no frame)
ModelPercentTenths == {620}

HeuristicTenths == {100}

AudioAnalyzerResults ==
    {AudioAnalyzer_analyze(Tenths[t]) : t \in ModelPercentTenths}
        \cup {AudioAnalyzer_mock_analysis(Tenths[t]) : t \in HeuristicTenths}

VideoAnalyzerResults ==
    {VideoAnalyzer_analyze(Tenths[t]) : t \in ModelPercentTenths}
        \cup {VideoAnalyzer_mock_analysis(None)}

(***************************************************************************)
(* The server of main.py: the table analysis_history, the files, and one   *)
(* action per handler.  The handlers are coroutines of one event loop and  *)
(* none awaits once the upload is saved, so a request is handled before    *)
(* the next one starts; upload_file is split where it commits: the new row *)
(* and the analysed row.                                                   *)
(* The caller of a request is the user get_current_user resolved.          *)
(***************************************************************************)
NumUsers == 2
MaxUploads == 2

Users == 1..NumUsers

Ids == 1..MaxUploads

AllowedExtensions == {".mp3", ".mp4", ".wav", ".m4a"}

Extensions == {".mp3", ".mp4", ".txt"}

\* file_ext[1:].upper()
FileType(ext) ==
    CASE ext = ".mp3" -> "MP3"
      [] ext = ".mp4" -> "MP4"
      [] ext = ".wav" -> "WAV"
      [] ext = ".m4a" -> "M4A"

MaxOf(S) == CHOOSE x \in S : \A y \in S : y <= x

\* the id of an inserted row: the table's key is an integer primary key of
\* the default SQLite database, one more than the largest id in use
NewId(table) == IF DOMAIN table = {} THEN 1 ELSE MaxOf(DOMAIN table) + 1

\* AnalysisHistory(user_id=..., file_type=..., status="processing"); besides
\* the columns, a row remembers the path of the saved upload and the
\* analyzers' results it was computed from
NewRow(user_id, ext, file_path, now) ==
    [user_id |-> user_id, file_type |-> FileType(ext), status |-> "processing",
     truth_score |-> None, audio_score |-> None, video_score |-> None,
     spectrogram_path |-> None, anomalies_detected |-> None, created_at |-> now,
     file_path |-> file_path, audio_result |-> None, video_result |-> None]

\* a variant of Completed that runs detect_anomalies on the audio result only
Completed_audio_only(row, is_video, audio, video, spectrogram_path) ==
    LET a_score     == ConfidenceOf(audio)
        v_score     == IF is_video THEN ConfidenceOf(video) ELSE None
        anomalies   == detect_anomalies(audio, None)
        fused       == calculate_truth_score(a_score, v_score)
    IN  [row EXCEPT !.truth_score = Some(fused),
                    !.audio_score = a_score,
                    !.video_score = v_score,
                    !.spectrogram_path = Some(spectrogram_path),
                    !.anomalies_detected = Some(anomalies.anomalies),
                    !.status = "completed",
                    !.audio_result = audio,
                    !.video_result = IF is_video THEN video ELSE None]

\* the try block of upload_file on the analyzers' results: the scores are the
\* confidences, the video part exists for a video only
Completed(row, is_video, audio, video, spectrogram_path) ==
    LET a_score     == ConfidenceOf(audio)
        v_score     == IF is_video THEN ConfidenceOf(video) ELSE None
        anomalies   == detect_anomalies(audio, IF is_video THEN video ELSE None)
        fused       == calculate_truth_score(a_score, v_score)
    IN  [row EXCEPT !.truth_score = Some(fused),
                    !.audio_score = a_score,
                    !.video_score = v_score,
                    !.spectrogram_path = Some(spectrogram_path),
                    !.anomalies_detected = Some(anomalies.anomalies),
                    !.status = "completed",
                    !.audio_result = audio,
                    !.video_result = IF is_video THEN video ELSE None]

\* the except block of upload_file: analysis.status = "failed"
Failed(row) == [row EXCEPT !.status = "failed"]

\* AnalysisResponse(id=analysis.id, ...)
AnalysisResponse(id, row) ==
    [id |-> id, file_type |-> row.file_type, truth_score |-> row.truth_score,
     audio_score |-> row.audio_score, video_score |-> row.video_score,
     anomalies_detected |-> row.anomalies_detected, status |-> row.status,
     created_at |-> row.created_at]

\* HistoryResponse(id=a.id, ...)
HistoryResponse(id, row) ==
    [id |-> id, file_type |-> row.file_type, truth_score |-> row.truth_score,
     status |-> row.status, created_at |-> row.created_at]

\* what a handler read of a row: which row it was and whose
ReadOf(id, row) == [id |-> id, created_at |-> row.created_at, user_id |-> row.user_id]

\* a variant of OwnedRow that filters on the id only
OwnedRow_any_user(table, analysis_id, user_id) ==
    IF analysis_id \in DOMAIN table THEN Some(table[analysis_id]) ELSE None

\* db.query(AnalysisHistory).filter(AnalysisHistory.id == analysis_id,
\*     AnalysisHistory.user_id == current_user.id).first()
OwnedRow(table, analysis_id, user_id) ==
    IF analysis_id \in DOMAIN table /\ table[analysis_id].user_id = user_id
    THEN Some(table[analysis_id])
    ELSE None

\* the ids of a set of rows, the latest created first
RECURSIVE NewestFirst(_, _)
NewestFirst(table, ids) ==
    IF ids = {} THEN <<>>
    ELSE LET i == CHOOSE i \in ids :
                    \A j \in ids : table[j].created_at <= table[i].created_at
         IN  <<i>> \o NewestFirst(table, ids \ {i})

\* .offset(skip).limit(limit)
Page(rows, skip, limit) ==
    SubSeq(rows, skip + 1, IF Len(rows) < skip + limit THEN Len(rows) ELSE skip + limit)

DEFAULT_LIMIT == 20

InitApp ==
    /\ op = "serve"
    /\ pc = "call"
    /\ audio_result = None /\ video_result = None
    /\ audio_score = None /\ video_score = None /\ stored_score = None
    /\ detected = NoFrame
    /\ truth_score = None
    /\ verdict = ""
    /\ calls = <<>>
    /\ AppEmpty

\* upload_file, refused: the extension is not allowed or the file is too large
UploadRejected(u, ext, too_large) ==
    /\ upload.pc = "idle"
    /\ ext \notin AllowedExtensions \/ too_large
    /\ reply' = Reply("upload_file", u, 0, 400, <<>>, <<>>)
    /\ UNCHANGED <<corevars, calls, db, disk, upload, clock, deleted>>

\* upload_file up to the first commit: the file is saved and the row inserted
UploadAccepted(u, ext) ==
    /\ upload.pc = "idle"
    /\ ext \in AllowedExtensions
    /\ clock < MaxUploads
    /\ LET id        == NewId(db)
           file_path == <<"uploads", clock + 1>>
       IN  /\ disk' = disk \cup {file_path}
           /\ db' = [i \in DOMAIN db \cup {id} |->
                        IF i = id THEN NewRow(u, ext, file_path, clock + 1) ELSE db[i]]
           /\ upload' = [pc |-> "processing", user |-> u, id |-> id, ext |-> ext,
                         file_path |-> file_path]
    /\ clock' = clock + 1
    /\ reply' = NoReply
    /\ UNCHANGED <<corevars, calls, deleted>>

\* the try block raises on these results: a subscript result["confidence"]
\* cannot be evaluated
TryRaises(is_video, audio, video) ==
    \/ ~HasConfidence(audio)
    \/ is_video /\ ~HasConfidence(video)

\* upload_file, the try block to its db.commit(): the analyzers ran, the
\* spectrogram was written, the row is updated and committed
UploadCompleted(audio, video) ==
    /\ upload.pc = "processing"
    /\ LET id               == upload.id
           is_video         == upload.ext \in {".mp4"}
           spectrogram_path == <<"spectrograms", id>>
       IN  /\ is_video \/ video = None
           /\ ~is_video \/ video # None
           /\ ~TryRaises(is_video, audio, video)
           /\ disk' = disk \cup {spectrogram_path}
           /\ db' = [db EXCEPT ![id] =
                        Completed(@, is_video, audio, video, spectrogram_path)]
    /\ upload' = [upload EXCEPT !.pc = "committed"]
    /\ reply' = NoReply
    /\ UNCHANGED <<corevars, calls, clock, deleted>>

\* upload_file, the end of the try block: db.refresh(analysis) and
\* return AnalysisResponse(...)
UploadReturned ==
    /\ upload.pc = "committed"
    /\ reply' = Reply("upload_file", upload.user, upload.id, 200,
                      AnalysisResponse(upload.id, db[upload.id]),
                      <<ReadOf(upload.id, db[upload.id])>>)
    /\ upload' = NoUpload
    /\ UNCHANGED <<corevars, calls, db, disk, clock, deleted>>

\* upload_file, the except block after an exception raised before the row
\* was updated (lines 181-229), with the spectrogram written before or not
UploadFailed(spectrogram_written) ==
    /\ upload.pc = "processing"
    /\ db' = [db EXCEPT ![upload.id] = Failed(@)]
    /\ disk' = (disk \cup (IF spectrogram_written
                           THEN {<<"spectrograms", upload.id>>} ELSE {}))
                    \ {upload.file_path}
    /\ reply' = Reply("upload_file", upload.user, upload.id, 500, <<>>, <<>>)
    /\ upload' = NoUpload
    /\ UNCHANGED <<corevars, calls, clock, deleted>>

\* upload_file, the except block after an exception raised once the row was
\* committed (by db.refresh or by AnalysisResponse(...), which stand inside
\* the try block): the status of the completed row is overwritten and the
\* upload removed
UploadFailedAfterCommit ==
    /\ upload.pc = "committed"
    /\ db' = [db EXCEPT ![upload.id] = Failed(@)]
    /\ disk' = disk \ {upload.file_path}
    /\ reply' = Reply("upload_file", upload.user, upload.id, 500, <<>>, <<>>)
    /\ upload' = NoUpload
    /\ UNCHANGED <<corevars, calls, clock, deleted>>

\* upload_file, the except block raising itself: its db.commit() fails, so
\* the row stays as last committed and the upload is not removed; the
\* server answers the unhandled exception with 500
UploadCrashed(spectrogram_written) ==
    /\ upload.pc \in {"processing", "committed"}
    /\ disk' = disk \cup (IF spectrogram_written
                          THEN {<<"spectrograms", upload.id>>} ELSE {})
    /\ reply' = Reply("upload_file", upload.user, upload.id, 500, <<>>, <<>>)
    /\ upload' = NoUpload
    /\ UNCHANGED <<corevars, calls, db, clock, deleted>>

GetHistory(u, skip, limit) ==
    /\ upload.pc = "idle"
    /\ LET mine     == {i \in DOMAIN db : db[i].user_id = u}
           analyses == Page(NewestFirst(db, mine), skip, limit)
       IN  reply' = Reply("get_history", u, 0, 200,
                          [k \in 1..Len(analyses) |->
                              HistoryResponse(analyses[k], db[analyses[k]])],
                          [k \in 1..Len(analyses) |->
                              ReadOf(analyses[k], db[analyses[k]])])
    /\ UNCHANGED <<corevars, calls, db, disk, upload, clock, deleted>>

GetAnalysisDetail(u, analysis_id) ==
    /\ upload.pc = "idle"
    /\ LET analysis == OwnedRow(db, analysis_id, u)
       IN  reply' = IF analysis = None
                    THEN Reply("get_analysis_detail", u, analysis_id, 404, <<>>, <<>>)
                    ELSE Reply("get_analysis_detail", u, analysis_id, 200,
                               AnalysisResponse(analysis_id, analysis[1]),
                               <<ReadOf(analysis_id, analysis[1])>>)
    /\ UNCHANGED <<corevars, calls, db, disk, upload, clock, deleted>>

GetSpectrogram(u, analysis_id) ==
    /\ upload.pc = "idle"
    /\ LET analysis == OwnedRow(db, analysis_id, u)
       IN  reply' = IF analysis = None \/ analysis[1].spectrogram_path = None
                    THEN Reply("get_spectrogram", u, analysis_id, 404, <<>>, <<>>)
                    ELSE IF analysis[1].spectrogram_path[1] \notin disk
                    THEN Reply("get_spectrogram", u, analysis_id, 404, <<>>, <<>>)
                    ELSE Reply("get_spectrogram", u, analysis_id, 200,
                               analysis[1].spectrogram_path[1],
                               <<ReadOf(analysis_id, analysis[1])>>)
    /\ UNCHANGED <<corevars, calls, db, disk, upload, clock, deleted>>

\* the report is written to reports/report_{id}.pdf and sent
DownloadReport(u, analysis_id) ==
    /\ upload.pc = "idle"
    /\ LET analysis == OwnedRow(db, analysis_id, u)
       IN  IF analysis = None
           THEN /\ reply' = Reply("download_report", u, analysis_id, 404, <<>>, <<>>)
                /\ disk' = disk
           ELSE /\ reply' = Reply("download_report", u, analysis_id, 200,
                                  [id |-> analysis_id,
                                   verdict |-> report_verdict(analysis[1].truth_score)],
                                  <<ReadOf(analysis_id, analysis[1])>>)
                /\ disk' = disk \cup {<<"reports", analysis_id>>}
    /\ UNCHANGED <<corevars, calls, db, upload, clock, deleted>>

DeleteAnalysis(u, analysis_id) ==
    /\ upload.pc = "idle"
    /\ LET analysis == OwnedRow(db, analysis_id, u)
       IN  IF analysis = None
           THEN /\ reply' = Reply("delete_analysis", u, analysis_id, 404, <<>>, <<>>)
                /\ UNCHANGED <<db, disk, deleted>>
           ELSE /\ disk' = IF analysis[1].spectrogram_path = None THEN disk
                           ELSE disk \ {analysis[1].spectrogram_path[1]}
                /\ db' = [i \in DOMAIN db \ {analysis_id} |-> db[i]]
                /\ deleted' = deleted \cup {ReadOf(analysis_id, analysis[1])}
                /\ reply' = Reply("delete_analysis", u, analysis_id, 200,
                                  "Analysis deleted successfully", <<>>)
    /\ UNCHANGED <<corevars, calls, upload, clock>>

NextApp ==
    \/ \E u \in Users, ext \in Extensions, too_large \in BOOLEAN :
            UploadRejected(u, ext, too_large)
    \/ \E u \in Users, ext \in Extensions : UploadAccepted(u, ext)
    \/ \E audio \in AudioAnalyzerResults, video \in VideoAnalyzerResults \cup {None} :
            UploadCompleted(audio, video)
    \/ \E spectrogram_written \in BOOLEAN : UploadFailed(spectrogram_written)
    \/ UploadReturned
    \/ UploadFailedAfterCommit
    \/ \E spectrogram_written \in BOOLEAN : UploadCrashed(spectrogram_written)
    \/ \E u \in Users, skip \in {0, 1}, limit \in {1, DEFAULT_LIMIT} :
            GetHistory(u, skip, limit)
    \/ \E u \in Users, analysis_id \in Ids :
            \/ GetAnalysisDetail(u, analysis_id)
            \/ GetSpectrogram(u, analysis_id)
            \/ DownloadReport(u, analysis_id)
            \/ DeleteAnalysis(u, analysis_id)

SpecApp == InitApp /\ [][NextApp]_vars

(***************************************************************************)
(* One upload on the server, analysed with what the analyzers can return   *)
(* over the whole range of confidences.                                    *)
(***************************************************************************)
PipelinePercentTenths ==
    {0, 1, 250, 380, 480, 500, 620, 880, 950, 1000}
        \cup {b + k : b \in {430, 450, 550, 600}, k \in (0 - NearSteps)..NearSteps}

PipelineHeuristicTenths ==
    {0, 100, 420, 460, 700, 999}
        \cup {b + k : b \in {400, 450}, k \in (0 - NearSteps)..NearSteps}

PipelineAudioResults ==
    {AudioAnalyzer_analyze(Tenths[t]) : t \in PipelinePercentTenths}
        \cup {AudioAnalyzer_mock_analysis(Tenths[t]) : t \in PipelineHeuristicTenths}

PipelineVideoResults ==
    {VideoAnalyzer_analyze(Tenths[t]) : t \in PipelinePercentTenths}
        \cup {VideoAnalyzer_mock_analysis(h) :
                h \in Optional({Tenths[t] : t \in PipelineHeuristicTenths})}

\* the server before its first upload
InitPipeline ==
    /\ op = "pipeline"
    /\ pc = "call"
    /\ audio_result = None /\ video_result = None
    /\ audio_score = None /\ video_score = None /\ stored_score = None
    /\ detected = NoFrame
    /\ truth_score = None
    /\ verdict = ""
    /\ calls = <<>>
    /\ AppEmpty

\* one upload, audio or video, analysed with any result of the analyzers
NextPipeline ==
    \/ \E ext \in {".mp3", ".mp4"} : clock = 0 /\ UploadAccepted(1, ext)
    \/ \E audio \in PipelineAudioResults, video \in PipelineVideoResults \cup {None} :
            UploadCompleted(audio, video)
    \/ UploadReturned

SpecPipeline == InitPipeline /\ [][NextPipeline]_vars

(***************************************************************************)
(* Properties.                                                             *)
(***************************************************************************)
Returned(o) == pc = "return" /\ op = o

\* the findings of one type, in the order of the returned list
OfType(t) == SelectSeq(detected.anomalies, LAMBDA a : a.type = t)

\* result["features"][key] of an Optional[Dict], None when there is none
FeatureOf(res, key) ==
    IF res = None THEN None
    ELSE IF res[1].features = None THEN None
    ELSE res[1].features[1][key]

\* x * 2^(-e0) as a natural number, for x >= 0 a multiple of 2^e0
Scaled(x, e0) == IF x.m = <<>> THEN <<>> ELSE BShl(x.m, x.e - e0)

MinOf(S) == CHOOSE x \in S : \A y \in S : x <= y

\* x <= y + 2^-44 in exact arithmetic, for x, y >= 0
LeqUpToRounding(x, y) ==
    LET e0 == MinOf({x.e, y.e, -44})
    IN  BCmp(Scaled(x, e0), BAdd(Scaled(y, e0), BShl(<<1>>, (-44) - e0))) <= 0

\* | r - (4a + 6v) / 10 | <= 2^-44 in exact arithmetic, for a, v, r >= 0
NearWeightedSum(r, a, v) ==
    LET e0  == MinOf({r.e, a.e, v.e, -44})
        r10 == BMulSmall(Scaled(r, e0), 10)
        s   == BAdd(BMulSmall(Scaled(a, e0), 4), BMulSmall(Scaled(v, e0), 6))
        t   == BMulSmall(BShl(<<1>>, (-44) - e0), 10)
    IN  BCmp(r10, BAdd(s, t)) <= 0 /\ BCmp(s, BAdd(r10, t)) <= 0

\* 0 <= x <= 100
InRange(x) == FLeq(FZero, x) /\ FLeq(x, FromInt(100))

BothScores == Returned("fuse") /\ audio_score # None /\ video_score # None

\* C1: with both scores present calculate_truth_score returns the float
\* audio_score * 0.4 + video_score * 0.6 (for scores >= 0 that is the real
\* number 0.4 a + 0.6 v up to rounding), and 80 and 60 give 68.0.
C1_WeightedSum ==
    BothScores =>
        /\ truth_score =
              Some(FAdd(FMul(audio_score[1], FromRatio(4, 10)),
                        FMul(video_score[1], FromRatio(6, 10))))
        /\ (~audio_score[1].neg /\ ~video_score[1].neg) =>
              /\ ~truth_score[1].neg
              /\ NearWeightedSum(truth_score[1], audio_score[1], video_score[1])
        /\ (audio_score = Some(FromInt(80)) /\ video_score = Some(FromInt(60))) =>
              truth_score = Some(FromInt(68))

C1_Witness ==
    /\ BothScores
    /\ audio_score = Some(FromInt(80)) /\ video_score = Some(FromInt(60))
    /\ truth_score = Some(FromInt(68))

\* the primary findings a result must give: one high finding below 40, one
\* medium finding from 40 to below 60, none from 60
PrimaryBand(res, type) ==
    LET c == PresentScore(res)[1]
        found == OfType(type)
    IN  IF FLess(c, FromInt(40))
        THEN Len(found) = 1 /\ found[1].severity = "high" /\ found[1].confidence = c
        ELSE IF FLess(c, FromInt(60))
        THEN Len(found) = 1 /\ found[1].severity = "medium" /\ found[1].confidence = c
        ELSE found = <<>>

\* C2: for each present modality with a confidence the primary rule gives
\* exactly one high finding when confidence < 40, exactly one medium finding
\* when 40 <= confidence < 60 and none when confidence >= 60, each carrying
\* the confidence; 40 is medium and 60 gives none.
C2_PrimaryBands ==
    Returned("detect") =>
        /\ (Truthy(audio_result) /\ PresentScore(audio_result) # None) =>
              PrimaryBand(audio_result, "audio")
        /\ (Truthy(video_result) /\ PresentScore(video_result) # None) =>
              PrimaryBand(video_result, "video")
        /\ PresentScore(audio_result) = Some(FromInt(40)) =>
              Len(OfType("audio")) = 1 /\ OfType("audio")[1].severity = "medium"
        /\ PresentScore(video_result) = Some(FromInt(60)) => OfType("video") = <<>>

C2_Witness ==
    /\ Returned("detect")
    /\ PresentScore(audio_result) = Some(FromInt(35))
    /\ FeatureOf(audio_result, "spectral_consistency") = None
    /\ video_result = None
    /\ Len(detected.anomalies) = 1
    /\ detected.anomalies[1].type = "audio"
    /\ detected.anomalies[1].severity = "high"
    /\ detected.anomalies[1].confidence = FromInt(35)

\* the secondary findings a result must give: one medium finding carrying the
\* feature value when the key is there with a value below the threshold,
\* none otherwise
SecondaryFires(res, key, below, type) ==
    LET v == FeatureOf(res, key)
        found == OfType(type)
    IN  IF v # None /\ FLess(v[1], FromInt(below))
        THEN Len(found) = 1 /\ found[1].severity = "medium" /\ found[1].confidence = v[1]
        ELSE found = <<>>

\* C3: the secondary rule fires if and only if the feature key is present
\* and its value is below the threshold (spectral_consistency < 50,
\* temporal_coherence < 55), giving a medium finding that carries the
\* feature value; a missing key never fires it, whatever the primary rule did.
C3_SecondaryRule ==
    Returned("detect") =>
        /\ SecondaryFires(audio_result, "spectral_consistency", 50, "audio_spectral")
        /\ SecondaryFires(video_result, "temporal_coherence", 55, "video_temporal")

C3_Witness ==
    /\ Returned("detect")
    /\ audio_result = None
    /\ PresentScore(video_result) = Some(FromInt(65))
    /\ FeatureOf(video_result, "temporal_coherence") = Some(FromInt(40))
    /\ Len(detected.anomalies) = 1
    /\ detected.anomalies[1].type = "video_temporal"
    /\ detected.anomalies[1].severity = "medium"
    /\ detected.anomalies[1].confidence = FromInt(40)

\* the band of a truth score: from 70, from 50, below 50
BandOf(t) ==
    IF FGeq(t, FromInt(70)) THEN "LIKELY AUTHENTIC"
    ELSE IF FGeq(t, FromInt(50)) THEN "UNCERTAIN"
    ELSE "LIKELY MANIPULATED"

\* C4: the verdict of a truth score t in [0,100] is LIKELY AUTHENTIC when
\* t >= 70, UNCERTAIN when 50 <= t < 70 and LIKELY MANIPULATED when t < 50,
\* the score 0 included.
C4_VerdictBands ==
    (Returned("verdict") /\ stored_score # None /\ InRange(stored_score[1])) =>
        verdict = BandOf(stored_score[1])

\* C5: with exactly one score present calculate_truth_score returns that
\* score unchanged, for 0 and for scores outside [0,100] too.
C5_SingleScore ==
    Returned("fuse") =>
        /\ (audio_score # None /\ video_score = None) => truth_score = audio_score
        /\ (audio_score = None /\ video_score # None) => truth_score = video_score

C5_Witness ==
    /\ Returned("fuse")
    /\ audio_score = Some(FZero) /\ video_score = None
    /\ truth_score = Some(FZero)

\* C6: with neither score present calculate_truth_score returns 50.0, never
\* 0 or 100.
C6_NeutralDefault ==
    (Returned("fuse") /\ audio_score = None /\ video_score = None) =>
        /\ truth_score = Some(FromInt(50))
        /\ truth_score # Some(FZero) /\ truth_score # Some(FromInt(100))

C6_Witness ==
    /\ Returned("fuse") /\ audio_score = None /\ video_score = None
    /\ truth_score = Some(FromInt(50))

BothInRange == BothScores /\ InRange(audio_score[1]) /\ InRange(video_score[1])

\* C7 as stated: for scores a, v in [0,100] the fused score lies between
\* min(a, v) and max(a, v) inclusive.
C7_BetweenMinMax ==
    BothInRange =>
        /\ FLeq(FMin(audio_score[1], video_score[1]), truth_score[1])
        /\ FLeq(truth_score[1], FMax(audio_score[1], video_score[1]))

\* C7 amended: for scores a, v in [0,100] the fused score lies in [0,100]
\* and between min(a, v) - 2^-44 and max(a, v) + 2^-44.
C7_BetweenUpToRounding ==
    BothInRange =>
        /\ InRange(truth_score[1])
        /\ LeqUpToRounding(FMin(audio_score[1], video_score[1]), truth_score[1])
        /\ LeqUpToRounding(truth_score[1], FMax(audio_score[1], video_score[1]))

C7_Witness ==
    /\ BothInRange
    /\ audio_score = video_score
    /\ FLess(audio_score[1], truth_score[1])

\* the modality a finding belongs to
IsAudio(a) == a.type \in {"audio", "audio_spectral"}

IsVideo(a) == a.type \in {"video", "video_temporal"}

\* C8: in the returned list the primary finding of a modality precedes its
\* secondary finding, and every audio finding precedes every video finding.
C8_Ordering ==
    Returned("detect") =>
        \A i, j \in 1..Len(detected.anomalies) :
            LET a == detected.anomalies[i]
                b == detected.anomalies[j]
            IN  /\ (a.type = "audio" /\ b.type = "audio_spectral") => i < j
                /\ (a.type = "video" /\ b.type = "video_temporal") => i < j
                /\ (IsAudio(a) /\ IsVideo(b)) => i < j

C8_Witness ==
    /\ Returned("detect")
    /\ Len(detected.anomalies) = 4
    /\ detected.anomalies[1].type = "audio"
    /\ detected.anomalies[2].type = "audio_spectral"
    /\ detected.anomalies[3].type = "video"
    /\ detected.anomalies[4].type = "video_temporal"

\* C9: detect_anomalies never fails: whatever records and keys are present
\* or absent, it returns a list and raises nothing.
C9_NeverRaises == Returned("detect") => detected.exc = "none"

C9_Witness ==
    /\ Returned("detect")
    /\ Truthy(audio_result) /\ audio_result[1].features = None
    /\ Truthy(video_result) /\ video_result[1].features = Some(EmptyFeatures)
    /\ detected.exc = "none"

\* C10: an absent modality contributes no finding: without audio there is no
\* audio or audio_spectral finding, without video no video or video_temporal
\* finding, and without both the list is empty.
C10_AbsentModality ==
    Returned("detect") =>
        /\ audio_result = None =>
              \A i \in 1..Len(detected.anomalies) : ~IsAudio(detected.anomalies[i])
        /\ video_result = None =>
              \A i \in 1..Len(detected.anomalies) : ~IsVideo(detected.anomalies[i])
        /\ (audio_result = None /\ video_result = None) =>
              detected = Frame(<<>>, "none")

C10_Witness ==
    /\ Returned("detect")
    /\ audio_result = None /\ video_result # None
    /\ Len(detected.anomalies) = 2
    /\ \A i \in 1..2 : IsVideo(detected.anomalies[i])

AnomalyTypes == {"audio", "audio_spectral", "video", "video_temporal"}

\* C11: a returned list has 0 to 4 findings, at most one of each type (so at
\* most 2 per modality); every severity is high or medium, and high occurs
\* only on a primary finding (type audio or video); two records of
\* confidence 80 without features give the empty list.
C11_ListShape ==
    Returned("detect") =>
        /\ Len(detected.anomalies) \in 0..4
        /\ \A t \in AnomalyTypes : Len(OfType(t)) <= 1
        /\ Len(SelectSeq(detected.anomalies, IsAudio)) <= 2
        /\ Len(SelectSeq(detected.anomalies, IsVideo)) <= 2
        /\ \A i \in 1..Len(detected.anomalies) :
              LET a == detected.anomalies[i]
              IN  /\ a.type \in AnomalyTypes
                  /\ a.severity \in {"high", "medium"}
                  /\ a.severity = "high" => a.type \in {"audio", "video"}
        /\ (/\ audio_result = Some([confidence |-> Some(FromInt(80)),
                                    features |-> Some(EmptyFeatures)])
            /\ video_result = Some([confidence |-> Some(FromInt(80)),
                                    features |-> Some(EmptyFeatures)]))
              => detected.anomalies = <<>>

C11_Witness ==
    /\ Returned("detect")
    /\ Len(detected.anomalies) = 4
    /\ detected.anomalies[1].severity = "high"
    /\ detected.anomalies[2].severity = "medium"
    /\ detected.anomalies[3].severity = "high"
    /\ detected.anomalies[4].severity = "medium"

\* C12: the modalities are evaluated independently: the list for (audio,
\* video) is the list for (audio, None) followed by the list for (None,
\* video), so the audio findings do not depend on the video record and the
\* video findings do not depend on the audio record.
C12_Independent ==
    Returned("detect") =>
        /\ detected.anomalies =
              detect_anomalies(audio_result, None).anomalies
                  \o detect_anomalies(None, video_result).anomalies
        /\ SelectSeq(detected.anomalies, IsAudio) =
              detect_anomalies(audio_result, None).anomalies
        /\ SelectSeq(detected.anomalies, IsVideo) =
              detect_anomalies(None, video_result).anomalies

C12_Witness ==
    /\ Returned("detect")
    /\ audio_result # None /\ video_result # None
    /\ Len(detect_anomalies(audio_result, None).anomalies) = 1
    /\ Len(detect_anomalies(None, video_result).anomalies) = 2
    /\ Len(detected.anomalies) = 3

PrimaryFindings == SelectSeq(detected.anomalies, LAMBDA a : a.type \in {"audio", "video"})

\* C16: for the same present modalities with confidences in [0,100], a
\* truth score below 50 (verdict LIKELY MANIPULATED) comes with at least one
\* primary finding (type audio or video); an empty list implies a truth
\* score of at least 50.
C16_LowScoreIsFlagged ==
    Returned("pair") =>
        /\ FLess(truth_score[1], FromInt(50)) => PrimaryFindings # <<>>
        /\ verdict = "LIKELY MANIPULATED" => PrimaryFindings # <<>>
        /\ detected.anomalies = <<>> => FGeq(truth_score[1], FromInt(50))

C16_Witness ==
    /\ Returned("pair")
    /\ audio_result # None /\ video_result # None
    /\ FGeq(audio_score[1], FromInt(60))
    /\ FLess(truth_score[1], FromInt(50))
    /\ verdict = "LIKELY MANIPULATED"
    /\ Len(PrimaryFindings) = 1
    /\ PrimaryFindings[1].type = "video"

\* C17: with both modalities present and confidences in [0,100], a high
\* video finding (video confidence < 40) comes with a truth score below 70,
\* so the verdict is never LIKELY AUTHENTIC.
C17_HighVideoNotAuthentic ==
    (/\ Returned("pair")
     /\ audio_result # None /\ video_result # None
     /\ \E i \in 1..Len(detected.anomalies) :
           detected.anomalies[i].type = "video" /\ detected.anomalies[i].severity = "high")
        => /\ FLess(video_score[1], FromInt(40))
           /\ FLess(truth_score[1], FromInt(70))
           /\ verdict # "LIKELY AUTHENTIC"

C17_Witness ==
    /\ Returned("pair")
    /\ audio_score = Some(FromInt(100))
    /\ video_score = Some(Tenths[399])
    /\ OfType("video") # <<>> /\ OfType("video")[1].severity = "high"
    /\ verdict = "UNCERTAIN"
\* the arguments of the call in slot s
ArgsOf(c) == <<c.fn, c.audio_result, c.video_result, c.audio_score, c.video_score>>

\* what the function returns for the arguments of c when called alone
AloneResult(c) ==
    IF c.fn = "detect" THEN detect_anomalies(c.audio_result, c.video_result)
    ELSE calculate_truth_score(c.audio_score, c.video_score)

CallsAgree ==
    \A s \in DOMAIN calls :
        calls[s].pc = "done" =>
            /\ calls[s].ret = Some(AloneResult(calls[s]))
            /\ \A t \in DOMAIN calls :
                    calls[t].pc = "done" /\ ArgsOf(calls[t]) = ArgsOf(calls[s])
                        => calls[t].ret = calls[s].ret

ArgsKept == \A s \in DOMAIN calls : ArgsOf(calls[s])' = ArgsOf(calls[s])

\* C13: calculate_truth_score and detect_anomalies are deterministic and
\* stateless: two finished calls with identical arguments hold identical
\* results, each the result of the call made alone, whatever calls were
\* interleaved with them, and no step of a call changes an argument.
C13_Deterministic == [](CallsAgree) /\ [][ArgsKept]_vars

C13_Witness ==
    /\ op = "calls"
    /\ \A s \in DOMAIN calls : calls[s].pc = "done" /\ calls[s].fn = "detect"
    /\ ArgsOf(calls[1]) = ArgsOf(calls[2])
    /\ Len(calls[1].ret[1].anomalies) = 4

\* every secondary finding of the list stands behind the primary finding of
\* its modality
SecondaryBehindPrimary(anomalies) ==
    \A i \in 1..Len(anomalies) :
        /\ anomalies[i].type = "audio_spectral"
            => \E j \in 1..(i - 1) : anomalies[j].type = "audio"
        /\ anomalies[i].type = "video_temporal"
            => \E j \in 1..(i - 1) : anomalies[j].type = "video"

\* C14: every analysis record with status completed stores the results
\* unchanged: its truth_score is calculate_truth_score of the audio_score and
\* video_score of the same record, these are the confidences of the
\* analyzers' results, and anomalies_detected is the list detect_anomalies
\* gives for those results.
C14_StoredUnchanged ==
    \A id \in DOMAIN db :
        db[id].status = "completed" =>
            /\ db[id].truth_score =
                    Some(calculate_truth_score(db[id].audio_score, db[id].video_score))
            /\ db[id].audio_score = PresentScore(db[id].audio_result)
            /\ db[id].video_score = PresentScore(db[id].video_result)
            /\ db[id].anomalies_detected =
                    Some(detect_anomalies(db[id].audio_result,
                                          db[id].video_result).anomalies)

C14_Witness ==
    \E id \in DOMAIN db :
        /\ db[id].status = "completed"
        /\ db[id].file_type = "MP4"
        /\ Len(db[id].anomalies_detected[1]) = 4
        /\ \E other \in DOMAIN db : other # id /\ db[other].status = "completed"

\* the state of every row: completed rows carry the scores, failed rows carry
\* none and their upload is gone from the disk, and a row is processing only
\* while the upload that inserted it is being handled
StatusInv ==
    \A id \in DOMAIN db :
        /\ db[id].status \in {"processing", "completed", "failed"}
        /\ db[id].status = "completed"
            => db[id].truth_score # None /\ db[id].audio_score # None
        /\ db[id].status = "failed"
            => db[id].truth_score = None /\ db[id].file_path \notin disk
        /\ db[id].status = "processing"
            => upload.pc = "processing" /\ upload.id = id

\* the steps of every row: a new row is processing; a processing row stays
\* or becomes completed or failed; a completed or failed row stays as it is
StatusStep ==
    \A id \in DOMAIN db' :
        IF id \in DOMAIN db /\ db[id].created_at = db'[id].created_at
        THEN \/ db[id].status = "processing"
                    /\ db'[id].status \in {"processing", "completed", "failed"}
             \/ db[id].status # "processing" /\ db'[id] = db[id]
        ELSE db'[id].status = "processing" /\ db'[id].truth_score = None

\* C15: a record starts in status processing and moves once, to completed
\* (truth_score and audio_score set) or to failed (truth_score unset, the
\* uploaded file removed); completed and failed records never change, and
\* no record is processing once the upload that created it has returned.
C15_Lifecycle == [](StatusInv) /\ [][StatusStep]_vars

\* C18: in every analysis of the upload pipeline, on the results the
\* analyzers return (model or mock, confidence in [0,100]), an
\* audio_spectral finding stands behind an audio finding and a
\* video_temporal finding stands behind a video finding.
C18_SecondaryNeedsPrimary ==
    \A id \in DOMAIN db :
        db[id].anomalies_detected # None
            => SecondaryBehindPrimary(db[id].anomalies_detected[1])

C18_Witness ==
    \E id \in DOMAIN db :
        /\ db[id].status = "completed"
        /\ \E i, j \in 1..Len(db[id].anomalies_detected[1]) :
                /\ db[id].anomalies_detected[1][i].type = "audio_spectral"
                /\ db[id].anomalies_detected[1][j].type = "video_temporal"
                /\ db[id].anomalies_detected[1][j - 1].severity = "medium"

ReadHandlers ==
    {"get_history", "get_analysis_detail", "get_spectrogram", "download_report"}

ByIdHandlers ==
    {"get_analysis_detail", "get_spectrogram", "download_report", "delete_analysis"}

\* every row a response was made from belongs to the caller
OnlyOwnRows ==
    \A k \in DOMAIN reply.read : reply.read[k].user_id = reply.user

\* no read is answered from a row that was deleted before
NoDeletedRow ==
    reply.handler \in ReadHandlers
        => \A k \in DOMAIN reply.read : reply.read[k] \notin deleted

\* a request by id for a row that does not exist or belongs to another user
\* is answered 404 and changes neither the table nor the files
ForeignStep ==
    LET id == reply'.id
    IN  (reply'.handler \in ByIdHandlers
            /\ (id \notin DOMAIN db \/ db[id].user_id # reply'.user))
        => reply'.code = 404 /\ db' = db /\ disk' = disk /\ deleted' = deleted

\* a read by id of a row of the caller is answered from that row:
\* get_analysis_detail and download_report answer 200, get_spectrogram
\* answers 200 when the row has a spectrogram on disk and 404 otherwise
OwnStep ==
    LET id == reply'.id
    IN  (reply'.handler \in ReadHandlers \cap ByIdHandlers
            /\ id \in DOMAIN db /\ db[id].user_id = reply'.user)
        => IF reply'.handler = "get_spectrogram"
                /\ (\/ db[id].spectrogram_path = None
                    \/ db[id].spectrogram_path[1] \notin disk)
           THEN reply'.code = 404 /\ reply'.read = <<>>
           ELSE reply'.code = 200 /\ reply'.read = <<ReadOf(id, db[id])>>

\* a read by id of an id that was deleted before is answered 404
DeletedIdAnswers404 ==
    (reply.handler \in ReadHandlers /\ \E d \in deleted : d.id = reply.id)
        => reply.code = 404

====
